---- MODULE Spec2Model ----
(***************************************************************************)
(* Model of paifu_gen (src/src/lib.rs).                                     *)
(*                                                                          *)
(*  - the replay loop of generate_board_from_tenhou_js: one step per mjai    *)
(*    event of the log, the four seat-indexed projections visible_kawa and   *)
(*    fuuro, and the rendering of the projections into the RawBoard strings; *)
(*  - the kawa and fuuro parsers of RawBoard::try_into.                      *)
(*                                                                          *)
(* Strings are sequences of one-character strings.  Tiles are the tile ids   *)
(* of the riichi crate: 0..8 = 1m..9m, 9..17 = 1p..9p, 18..26 = 1s..9s,      *)
(* 27..33 = honors, 34/35/36 = red 5m/5p/5s.                                 *)
(***************************************************************************)
EXTENDS Integers, Sequences, FiniteSets, TLC

VARIABLES
    events,        \* the mjai log as far as it is known (read events + unread rest)
    fed,           \* number of events handed to state.update so far
    pc,            \* "loop" | "done" | "error"
    state,         \* the part of PlayerState the replay reads
    visible_kawa,  \* [0..3 -> Seq(<<pai, tsumogiri, riichi>>)], relative seat index
    fuuro,         \* [0..3 -> Seq(Seq(<<tile, sideways>>))], relative seat index
    board,         \* the RawBoard returned (kawa / fuuro strings), or NoBoard
    raw,           \* codec: the string under decode
    decoded        \* codec: result of the decode / re-encode

vars == <<events, fed, pc, state, visible_kawa, fuuro, board, raw, decoded>>

(***************************************************************************)
(* Bounds                                                                   *)
(***************************************************************************)
MaxEvents == 3

Seats == 0..3

\* tiles that discards and added quads draw from: 5m and red 5m
Tiles == {4, 34}
\* <<pai, tsumogiri>> of the discards
Discards == {<<4, FALSE>>, <<4, TRUE>>, <<34, FALSE>>}
\* tile kind of concealed quads: East
AnkanTiles == {27}

NoBoard == [none |-> TRUE]

(***************************************************************************)
(* riichi::tile::Tile                                                       *)
(***************************************************************************)
deaka(t) == IF t = 34 THEN 4 ELSE IF t = 35 THEN 13 ELSE IF t = 36 THEN 22 ELSE t

Kinds == 0..33

\* the tiles of the model's events, and their kinds
ModelTiles == Tiles \cup AnkanTiles \cup {deaka(t) + d : t \in Tiles, d \in 0..2} \cup {0}
SeenKinds == {deaka(t) : t \in ModelTiles}

(***************************************************************************)
(* mjai events (riichi::mjai::Event), one record shape for all of them      *)
(***************************************************************************)
Ev(ty, a, tg, p, c, ts) ==
    [type |-> ty, actor |-> a, target |-> tg, pai |-> p, consumed |-> c, tsumogiri |-> ts]

EvDahai(a, p, ts)      == Ev("Dahai", a, a, p, <<>>, ts)
EvChi(a, tg, p)        == Ev("Chi", a, tg, p, <<deaka(p) + 1, deaka(p) + 2>>, FALSE)
EvPon(a, tg, p)        == Ev("Pon", a, tg, p, <<deaka(p), deaka(p)>>, FALSE)
EvDaiminkan(a, tg, p)  == Ev("Daiminkan", a, tg, p, <<deaka(p), deaka(p), deaka(p)>>, FALSE)
EvAnkan(a, k)          == Ev("Ankan", a, a, k, <<k, k, k, k>>, FALSE)
EvKakan(a, p)          == Ev("Kakan", a, a, p, <<deaka(p), deaka(p), deaka(p)>>, FALSE)
EvReach(a)             == Ev("Reach", a, a, 0, <<>>, FALSE)
EvDora                 == Ev("Dora", 0, 0, 0, <<>>, FALSE)
EvEndKyoku             == Ev("EndKyoku", 0, 0, 0, <<>>, FALSE)

\* what may follow the event at which the loop stops: nothing, or events of a later round
Tails == { <<>>, <<EvDahai(0, 4, FALSE), EvAnkan(1, 27)>> }

(***************************************************************************)
(* PlayerState (riichi::state), as far as the replay depends on it          *)
(***************************************************************************)
\* the seat itself, not its position as seen from the viewing seat
rel_absolute(st, actor) == actor

\* PlayerState::rel
rel(st, actor) == (actor + 4 - st.player_id) % 4

\* tiles an event shows for the first time
Shown(e) ==
    CASE e.type = "Dahai" -> <<e.pai>>
      [] e.type \in {"Chi", "Pon", "Daiminkan", "Ankan"} -> e.consumed
      [] e.type = "Kakan" -> <<e.pai>>
      [] OTHER -> <<>>

CountKind(s, k) == Cardinality({i \in DOMAIN s : deaka(s[i]) = k})

\* witness_tile: a fifth copy of a tile kind is a rule violation
witness_ok(st, e) ==
    \A k \in {deaka(Shown(e)[i]) : i \in DOMAIN Shown(e)} :
        st.tiles_seen[k] + CountKind(Shown(e), k) <= 4

\* what the engine checks of a call, an added quad, a riichi declaration
order_ok(st, e) ==
    CASE e.type \in {"Chi", "Pon", "Daiminkan"} ->
            /\ e.actor # e.target
            /\ ~st.riichi_declared[rel(st, e.actor)]
            /\ (e.type = "Chi" => (4 + e.actor - e.target) % 4 = 1)
      [] e.type = "Kakan" -> <<e.actor, deaka(e.pai)>> \in st.pon
      [] e.type = "Reach" -> ~st.riichi_declared[rel(st, e.actor)]
      [] OTHER -> TRUE

update_ok(st, e) == witness_ok(st, e) /\ order_ok(st, e)

update(st, e) ==
    [player_id |-> st.player_id,
     riichi_declared |->
        IF e.type = "Reach"
        THEN [st.riichi_declared EXCEPT ![rel(st, e.actor)] = TRUE]
        ELSE st.riichi_declared,
     tiles_seen |->
        [k \in SeenKinds |-> st.tiles_seen[k] + CountKind(Shown(e), k)],
     pon |->
        IF e.type = "Pon" THEN st.pon \cup {<<e.actor, deaka(e.pai)>>}
        ELSE IF e.type = "Kakan" THEN st.pon \ {<<e.actor, deaka(e.pai)>>}
        ELSE st.pon]

PlayerStateNew(id) ==
    [player_id |-> id,
     riichi_declared |-> [i \in Seats |-> FALSE],
     tiles_seen |-> [k \in SeenKinds |-> 0],
     pon |-> {}]

(***************************************************************************)
(* The log (tenhou_to_mjai's output): what may come after the events read   *)
(***************************************************************************)
LastEvent(evs) == IF evs = <<>> THEN EvDora ELSE evs[Len(evs)]

\* a riichi declaration is followed by the same seat's discard
MustDiscard(evs) == LastEvent(evs).type = "Reach"

DahaiEvents(evs) ==
    {EvDahai(a, d[1], d[2]) : a \in IF MustDiscard(evs) THEN {LastEvent(evs).actor} ELSE Seats,
                              d \in Discards}

AnkanEvents(evs) ==
    IF MustDiscard(evs) THEN {} ELSE {EvAnkan(a, k) : a \in Seats, k \in AnkanTiles}

\* an added quad is on a pon of the seat
KakanEvents(evs, st) ==
    IF MustDiscard(evs) THEN {}
    ELSE {EvKakan(ap[1], ap[2]) : ap \in {x \in Seats \X Tiles : <<x[1], deaka(x[2])>> \in st.pon}}

OtherEvents(evs) ==
    IF MustDiscard(evs) THEN {} ELSE {EvReach(a) : a \in Seats}

\* a call is of the tile discarded by the event before it
ChiPonEvents(evs) ==
    LET d == LastEvent(evs)
    IN  IF d.type # "Dahai" THEN {}
        ELSE {EvChi(a, d.actor, d.pai) : a \in Seats} \cup {EvPon(a, d.actor, d.pai) : a \in Seats}

DaiminkanEvents(evs) ==
    LET d == LastEvent(evs)
    IN  IF d.type # "Dahai" THEN {} ELSE {EvDaiminkan(a, d.actor, d.pai) : a \in Seats}

EndEvents(evs) == IF MustDiscard(evs) THEN {} ELSE {EvEndKyoku}

InputEvents(evs, st) ==
    DahaiEvents(evs) \cup AnkanEvents(evs) \cup KakanEvents(evs, st) \cup OtherEvents(evs)
        \cup ChiPonEvents(evs) \cup DaiminkanEvents(evs) \cup EndEvents(evs)

(***************************************************************************)
(* Vec helpers (0-based indices, as in the source)                          *)
(***************************************************************************)
\* Vec::insert(i, x)
VecInsert(s, i, x) == SubSeq(s, 1, i) \o <<x>> \o SubSeq(s, i + 1, Len(s))

\* the oldest element removed instead of the newest
VecPop_front(s) == IF s = <<>> THEN s ELSE SubSeq(s, 2, Len(s))

\* Vec::pop(), the popped value dropped; nothing happens on an empty Vec
VecPop(s) == IF s = <<>> THEN s ELSE SubSeq(s, 1, Len(s) - 1)

RECURSIVE Concat(_)
\* Iterator::flatten / join("")
Concat(ss) == IF ss = <<>> THEN <<>> ELSE Head(ss) \o Concat(Tail(ss))

\* all but the last element
Front(s) == SubSeq(s, 1, Len(s) - 1)

\* Iterator::rev
Rev(s) == [i \in 1..Len(s) |-> s[Len(s) + 1 - i]]

(***************************************************************************)
(* tiles_vec_to_string, lib.rs:165-179, with riichi::hand::tiles_to_string  *)
(***************************************************************************)
DigitChar(n) == <<"0", "1", "2", "3", "4", "5", "6", "7", "8", "9">>[n + 1]
SuitChar(s) == <<"m", "p", "s", "z">>[s + 1]

RECURSIVE Repeat(_, _)
Repeat(c, n) == IF n <= 0 THEN <<>> ELSE <<c>> \o Repeat(c, n - 1)

\* the digits of suit s from rank index j on; a red five is written "0"
RECURSIVE RanksString(_, _, _, _)
RanksString(tiles_34, aka, s, j) ==
    IF j >= (IF s = 3 THEN 7 ELSE 9) THEN <<>>
    ELSE LET n == tiles_34[s * 9 + j]
             here == IF n = 0 THEN <<>>
                     ELSE IF j = 4 /\ s < 3 /\ aka[s]
                          THEN <<"0">> \o Repeat("5", n - 1)
                          ELSE Repeat(DigitChar(j + 1), n)
         IN  here \o RanksString(tiles_34, aka, s, j + 1)

tiles_to_string(tiles_34, aka) ==
    Concat([s \in 1..4 |->
        LET r == RanksString(tiles_34, aka, s - 1, 0)
        IN  IF r = <<>> THEN <<>> ELSE r \o <<SuitChar(s - 1), " ">>])

tiles_vec_to_string(tiles) ==
    LET tiles_34 == [k \in Kinds |-> Cardinality({i \in DOMAIN tiles : deaka(tiles[i]) = k})]
        aka == [s \in 0..2 |-> \E i \in DOMAIN tiles : tiles[i] = 34 + s]
    IN  SelectSeq(tiles_to_string(tiles_34, aka), LAMBDA c : c # " ")

(***************************************************************************)
(* generate_board_from_tenhou_js: rendering, lib.rs:258-298                 *)
(***************************************************************************)
\* tiles_vec_to_string(&[tile]) for the tiles of the model, computed once
TileStrings == [t \in ModelTiles |-> tiles_vec_to_string(<<t>>)]

\* lib.rs:263-275
sutehai_string(rec) ==
    TileStrings[rec[1]]
        \o (IF rec[2] THEN <<".">> ELSE IF rec[3] THEN <<"-">> ELSE <<>>)

\* lib.rs:288-294
fuurohai_string(rec) ==
    IF rec[2] THEN <<"(">> \o TileStrings[rec[1]] \o <<")">>
    ELSE TileStrings[rec[1]]

kawa_strings(vk) ==
    [i \in 1..4 |-> Concat([j \in 1..Len(vk[i - 1]) |-> sutehai_string(vk[i - 1][j])])]

\* the groups in the order they were formed
fuuro_strings_chronological(fu) ==
    [i \in 1..4 |->
        LET flat == Concat(fu[i - 1])
        IN  Concat([j \in 1..Len(flat) |-> fuurohai_string(flat[j])])]

\* lib.rs:281-298
fuuro_strings(fu) ==
    [i \in 1..4 |->
        LET flat == Concat(Rev(fu[i - 1]))
        IN  Concat([j \in 1..Len(flat) |-> fuurohai_string(flat[j])])]

RawBoardOf(vk, fu) == [kawa |-> kawa_strings(vk), fuuro |-> fuuro_strings(fu)]

(***************************************************************************)
(* generate_board_from_tenhou_js: the event loop, lib.rs:201-256            *)
(***************************************************************************)
\* lib.rs:224 and 235: ((4 + actor - target) % 4) as usize - 1
naki_index(actor, target) == ((4 + actor - target) % 4) - 1

\* lib.rs:223, 234, 240: consumed.map(|tile| (tile, false)).to_vec()
consumed_naki(e) == [i \in 1..Len(e.consumed) |-> <<e.consumed[i], FALSE>>]

\* lib.rs:223-224
chipon_naki(e) ==
    VecInsert(consumed_naki(e), naki_index(e.actor, e.target), <<e.pai, TRUE>>)

\* lib.rs:234-236 (the naki is built and dropped)
daiminkan_naki(e) ==
    LET t == naki_index(e.actor, e.target)
    IN  VecInsert(consumed_naki(e), IF t = 2 THEN 3 ELSE t, <<e.pai, TRUE>>)

\* lib.rs:209
dahai_record(st, e) == <<e.pai, e.tsumogiri, st.riichi_declared[rel(st, e.actor)]>>

\* the match without de-reddening the two tiles
kakan_match_exact(naki, pai) ==
    LET hits == {i \in 1..Len(naki) : naki[i][1] = pai /\ naki[i][2]}
    IN  IF hits = {} THEN 0 ELSE CHOOSE i \in hits : \A j \in hits : i <= j

\* lib.rs:245-246: index (1-based) of the first sideways tile of naki whose
\* de-reddened value is pai's, 0 when there is none
kakan_match(naki, pai) ==
    LET hits == {i \in 1..Len(naki) : deaka(naki[i][1]) = deaka(pai) /\ naki[i][2]}
    IN  IF hits = {} THEN 0 ELSE CHOOSE i \in hits : \A j \in hits : i <= j

\* lib.rs:244-251: the first group with a match gets pai after the match
kakan_insert(groups, pai) ==
    LET found == {g \in 1..Len(groups) : kakan_match(groups[g], pai) # 0}
    IN  IF found = {} THEN groups
        ELSE LET g == CHOOSE x \in found : \A y \in found : x <= y
             IN  [groups EXCEPT ![g] = VecInsert(@, kakan_match(@, pai), <<pai, TRUE>>)]

\* lib.rs:204-206: the event is handed to state.update and accepted
Feed(e) ==
    /\ pc = "loop"
    /\ fed < MaxEvents
    /\ update_ok(state, e)
    /\ events' = Append(events, e)
    /\ fed' = fed + 1
    /\ state' = update(state, e)
    /\ UNCHANGED <<raw, decoded>>

Continue == pc' = "loop" /\ board' = board

\* the match on the event run before the result of state.update is looked at
InvalidEvent_projected(e, rest) ==
    /\ pc = "loop"
    /\ fed < MaxEvents
    /\ ~update_ok(state, e)
    /\ events' = Append(events, e) \o rest
    /\ fed' = fed + 1
    /\ pc' = "error"
    /\ board' = NoBoard
    /\ visible_kawa' =
            IF e.type \in {"Chi", "Pon", "Daiminkan"}
            THEN [visible_kawa EXCEPT ![rel(state, e.target)] = VecPop(@)]
            ELSE visible_kawa
    /\ UNCHANGED <<state, fuuro, raw, decoded>>

\* lib.rs:204-206: state.update returns Err, the function returns Err
InvalidEvent(e, rest) ==
    /\ pc = "loop"
    /\ fed < MaxEvents
    /\ ~update_ok(state, e)
    /\ events' = Append(events, e) \o rest
    /\ fed' = fed + 1
    /\ pc' = "error"
    /\ board' = NoBoard
    /\ UNCHANGED <<state, visible_kawa, fuuro, raw, decoded>>

\* lib.rs:208-210
Dahai(e) ==
    /\ Feed(e)
    /\ e.type = "Dahai"
    /\ visible_kawa' = [visible_kawa EXCEPT
            ![rel(state', e.actor)] = Append(@, dahai_record(state', e))]
    /\ fuuro' = fuuro
    /\ Continue

\* lib.rs:211-227
ChiPon(e) ==
    /\ Feed(e)
    /\ e.type \in {"Chi", "Pon"}
    /\ fuuro' = [fuuro EXCEPT ![rel(state', e.actor)] = Append(@, chipon_naki(e))]
    /\ visible_kawa' = [visible_kawa EXCEPT ![rel(state', e.target)] = VecPop(@)]
    /\ Continue

\* the open quad with the naki pushed to the caller's melds
Daiminkan_pushing(e) ==
    /\ Feed(e)
    /\ e.type = "Daiminkan"
    /\ fuuro' = [fuuro EXCEPT ![rel(state', e.actor)] = Append(@, daiminkan_naki(e))]
    /\ visible_kawa' = [visible_kawa EXCEPT ![rel(state', e.target)] = VecPop(@)]
    /\ Continue

\* lib.rs:228-238
Daiminkan(e) ==
    /\ Feed(e)
    /\ e.type = "Daiminkan"
    /\ Len(daiminkan_naki(e)) = 4
    /\ visible_kawa' = [visible_kawa EXCEPT ![rel(state', e.target)] = VecPop(@)]
    /\ fuuro' = fuuro
    /\ Continue

\* lib.rs:239-242
Ankan(e) ==
    /\ Feed(e)
    /\ e.type = "Ankan"
    /\ fuuro' = [fuuro EXCEPT ![rel(state', e.actor)] = Append(@, consumed_naki(e))]
    /\ visible_kawa' = visible_kawa
    /\ Continue

\* lib.rs:243-252
Kakan(e) ==
    /\ Feed(e)
    /\ e.type = "Kakan"
    /\ fuuro' = [fuuro EXCEPT ![rel(state', e.actor)] = kakan_insert(@, e.pai)]
    /\ visible_kawa' = visible_kawa
    /\ Continue

\* lib.rs:254: every other event only updates the engine state
OtherEvent(e) ==
    /\ Feed(e)
    /\ e.type \notin {"Dahai", "Chi", "Pon", "Daiminkan", "Ankan", "Kakan", "EndKyoku"}
    /\ UNCHANGED <<visible_kawa, fuuro>>
    /\ Continue

\* no break: the loop goes on into the events after the end of the round
EndKyoku_no_break(e, rest) ==
    /\ pc = "loop"
    /\ e.type = "EndKyoku"
    /\ fed < MaxEvents
    /\ update_ok(state, e)
    /\ events' = Append(events, e)
    /\ fed' = fed + 1
    /\ state' = update(state, e)
    /\ pc' = "loop"
    /\ UNCHANGED <<visible_kawa, fuuro, board, raw, decoded>>

\* lib.rs:253 and 258-312: break, render, return the board; rest is never read
EndKyoku(e, rest) ==
    /\ pc = "loop"
    /\ e.type = "EndKyoku"
    /\ fed < MaxEvents
    /\ update_ok(state, e)
    /\ events' = Append(events, e) \o rest
    /\ fed' = fed + 1
    /\ state' = update(state, e)
    /\ pc' = "done"
    /\ board' = RawBoardOf(visible_kawa, fuuro)
    /\ UNCHANGED <<visible_kawa, fuuro, raw, decoded>>

\* lib.rs:203 and 258-312: the iterator is exhausted
LogExhausted ==
    /\ pc = "loop"
    /\ pc' = "done"
    /\ board' = RawBoardOf(visible_kawa, fuuro)
    /\ UNCHANGED <<events, fed, state, visible_kawa, fuuro, raw, decoded>>

Init ==
    /\ events = <<>>
    /\ fed = 0
    /\ pc = "loop"
    /\ \E id \in Seats : state = PlayerStateNew(id)
    /\ visible_kawa = [i \in Seats |-> <<>>]
    /\ fuuro = [i \in Seats |-> <<>>]
    /\ board = NoBoard
    /\ raw = [field |-> "", text |-> <<>>]
    /\ decoded = NoBoard

Next ==
    \/ \E e \in DahaiEvents(events) : Dahai(e)
    \/ \E e \in ChiPonEvents(events) : ChiPon(e)
    \/ \E e \in DaiminkanEvents(events) : Daiminkan(e)
    \/ \E e \in AnkanEvents(events) : Ankan(e)
    \/ \E e \in KakanEvents(events, state) : Kakan(e)
    \/ \E e \in OtherEvents(events) : OtherEvent(e)
    \/ \E e \in EndEvents(events), rest \in Tails : EndKyoku(e, rest)
    \/ \E e \in InputEvents(events, state), rest \in Tails : InvalidEvent(e, rest)
    \/ LogExhausted

Spec == Init /\ [][Next]_vars

(***************************************************************************)
(* RawBoard::try_into: the kawa and fuuro parsers, lib.rs:62-125            *)
(***************************************************************************)
Ok(v) == [ok |-> TRUE, val |-> v, err |-> ""]
Err(msg) == [ok |-> FALSE, val |-> <<>>, err |-> msg]

RankOf(c) ==
    CASE c = "1" -> 1 [] c = "2" -> 2 [] c = "3" -> 3 [] c = "4" -> 4 [] c = "5" -> 5
      [] c = "6" -> 6 [] c = "7" -> 7 [] c = "8" -> 8 [] c = "9" -> 9 [] OTHER -> 0

SuitOf(c) == CASE c = "m" -> 0 [] c = "p" -> 1 [] c = "s" -> 2 [] c = "z" -> 3 [] OTHER -> 4

\* riichi::hand::parse_tile on a two-character string: a rank and a suit letter
parse_tile(tile_string) ==
    LET r == RankOf(tile_string[1])
        u == SuitOf(tile_string[2])
    IN  IF r = 0 \/ u = 4 \/ (u = 3 /\ r > 7) THEN Err("parse_tile")
        ELSE Ok(9 * u + r - 1)

\* the markers as the comment of lib.rs:62 reads them: "." is tedashi, none is tsumogiri
kawa_marker_as_commented(marker) ==
    IF marker = "." THEN <<FALSE, FALSE>>
    ELSE IF marker = "-" THEN <<TRUE, TRUE>>
    ELSE <<TRUE, FALSE>>

\* lib.rs:70-80: <<tsumogiri, riichi>> of the character after a tile token
kawa_marker(marker) ==
    IF marker = "." THEN <<TRUE, FALSE>>
    ELSE IF marker = "-" THEN <<TRUE, TRUE>>
    ELSE <<FALSE, FALSE>>

\* lib.rs:68-86: the while loop over chars, kawa the records pushed so far
RECURSIVE kawa_scan(_, _)
kawa_scan(chars, kawa) ==
    IF chars = <<>> THEN Ok(kawa)
    ELSE IF Len(chars) < 2 THEN Err("incorrect kawa")
    ELSE LET tile_string == <<chars[1], chars[2]>>
             after == SubSeq(chars, 3, Len(chars))
             marker == IF after = <<>> THEN "" ELSE after[1]
             tsumogiri == kawa_marker(marker)[1]
             riichi == kawa_marker(marker)[2]
             left == IF marker \in {".", "-"} THEN Tail(after) ELSE after
             pai == parse_tile(tile_string)
         IN  IF ~pai.ok THEN pai
             ELSE kawa_scan(left,
                    Append(kawa, [pai |-> pai.val, tedashi |-> ~tsumogiri, riichi |-> riichi]))

\* lib.rs:63-87 for one seat
parse_kawa(raw_kawa) == kawa_scan(raw_kawa, <<>>)

\* lib.rs:95-124: the loop over fuuro_iter
RECURSIVE fuuro_scan(_, _, _)
fuuro_scan(chars, in_parentheses, tiles) ==
    IF chars = <<>> THEN Ok(tiles)
    ELSE IF chars[1] = "("
         THEN IF in_parentheses THEN Err("nested opening parenthesis in fuuro")
              ELSE fuuro_scan(Tail(chars), TRUE, tiles)
    ELSE IF chars[1] = ")"
         THEN IF ~in_parentheses THEN Err("extra closing parenthesis in fuuro")
              ELSE fuuro_scan(Tail(chars), FALSE, tiles)
    ELSE IF Len(chars) < 2 THEN Err("incorrect fuuro")
    ELSE LET tile == parse_tile(<<chars[1], chars[2]>>)
         IN  IF ~tile.ok THEN tile
             ELSE fuuro_scan(SubSeq(chars, 3, Len(chars)), in_parentheses,
                    Append(tiles, [tile |-> tile.val, sideways |-> in_parentheses]))

\* with a balance check at the end of the string
parse_fuuro_balanced(raw_fuuro) ==
    LET r == fuuro_scan(raw_fuuro, FALSE, <<>>)
        opened == Cardinality({i \in DOMAIN raw_fuuro : raw_fuuro[i] = "("})
        closed == Cardinality({i \in DOMAIN raw_fuuro : raw_fuuro[i] = ")"})
    IN  IF r.ok /\ opened > closed THEN Err("unclosed parenthesis in fuuro") ELSE r

\* in_parentheses starting out set
parse_fuuro_open(raw_fuuro) == fuuro_scan(raw_fuuro, TRUE, <<>>)

\* lib.rs:89-125 for one seat
parse_fuuro(raw_fuuro) == fuuro_scan(raw_fuuro, FALSE, <<>>)

\* the renderer of lib.rs:258-279 on decoded discard records
encode_kawa(kawa) ==
    Concat([j \in 1..Len(kawa) |->
        sutehai_string(<<kawa[j].pai, ~kawa[j].tedashi, kawa[j].riichi>>)])

(***************************************************************************)
(* The codec on its own: a kawa or fuuro string is decoded, and decoded     *)
(* discards are rendered again                                              *)
(***************************************************************************)
MaxPieces == 5

KawaPieces == {<<"1", "m">>, <<"5", "m">>, <<"1">>, <<"m">>, <<".">>, <<"-">>}
FuuroPieces == {<<"1", "m">>, <<"5", "m">>, <<"1">>, <<"m">>, <<"(">>, <<")">>}

Texts(pieces) ==
    {Concat(ps) : ps \in UNION {[1..n -> pieces] : n \in 0..MaxPieces}}

DecodeKawa ==
    /\ pc = "decode"
    /\ raw.field = "kawa"
    /\ decoded' = parse_kawa(raw.text)
    /\ pc' = "decoded"
    /\ UNCHANGED <<events, fed, state, visible_kawa, fuuro, board, raw>>

DecodeFuuro ==
    /\ pc = "decode"
    /\ raw.field = "fuuro"
    /\ decoded' = parse_fuuro(raw.text)
    /\ pc' = "decoded"
    /\ UNCHANGED <<events, fed, state, visible_kawa, fuuro, board, raw>>

EncodeKawa ==
    /\ pc = "decoded"
    /\ raw.field = "kawa"
    /\ decoded.ok
    /\ board' = [kawa |-> <<encode_kawa(decoded.val)>>, fuuro |-> <<>>]
    /\ pc' = "encoded"
    /\ UNCHANGED <<events, fed, state, visible_kawa, fuuro, raw, decoded>>

InitCodec ==
    /\ events = <<>>
    /\ fed = 0
    /\ pc = "decode"
    /\ state = PlayerStateNew(0)
    /\ visible_kawa = [i \in Seats |-> <<>>]
    /\ fuuro = [i \in Seats |-> <<>>]
    /\ board = NoBoard
    /\ \/ \E t \in Texts(KawaPieces) : raw = [field |-> "kawa", text |-> t]
       \/ \E t \in Texts(FuuroPieces) : raw = [field |-> "fuuro", text |-> t]
    /\ decoded = NoBoard

NextCodec == DecodeKawa \/ DecodeFuuro \/ EncodeKawa

SpecCodec == InitCodec /\ [][NextCodec]_vars

(***************************************************************************)
(* RawBoard::try_into as a whole, lib.rs:42-127.  A character is a string;  *)
(* "U+00E9" stands for the one character e-acute, two bytes long in UTF-8.  *)
(***************************************************************************)
\* bytes of a character in a String
Utf8Len(c) == IF c = "U+00E9" THEN 2 ELSE 1

RECURSIVE StrLen(_)
\* String::len(): the length in bytes
StrLen(str) == IF str = <<>> THEN 0 ELSE Utf8Len(Head(str)) + StrLen(Tail(str))

\* a slice of a String panics when a bound falls inside a character:
\* &str[0..1] of a non-empty string is taken when its first character is one byte
SliceOk(str) == str # <<>> /\ Utf8Len(str[1]) = 1

\* Tile::from_str (riichi crate) on the mjai names: honors by letter, numbered
\* tiles by rank and suit
tile_from_str(str) ==
    IF Len(str) = 1
    THEN CASE str[1] = "E" -> Ok(27) [] str[1] = "S" -> Ok(28) [] str[1] = "W" -> Ok(29)
           [] str[1] = "N" -> Ok(30) [] str[1] = "P" -> Ok(31) [] str[1] = "F" -> Ok(32)
           [] str[1] = "C" -> Ok(33) [] OTHER -> Err("not a tile")
    ELSE IF Len(str) = 2 /\ RankOf(str[1]) # 0 /\ SuitOf(str[2]) < 3
         THEN Ok(9 * SuitOf(str[2]) + RankOf(str[1]) - 1)
    ELSE Err("not a tile")

DigitOf(c) == IF c = "0" THEN 0 ELSE IF RankOf(c) # 0 THEN RankOf(c) ELSE 10

RECURSIVE parse_number(_, _)
\* str::parse to an unsigned number: digits only, at least one
parse_number(str, acc) ==
    IF str = <<>> THEN Ok(acc)
    ELSE IF DigitOf(Head(str)) = 10 THEN Err("invalid digit")
    ELSE parse_number(Tail(str), 10 * acc + DigitOf(Head(str)))

parse_u8(str) ==
    LET n == parse_number(str, 0)
    IN  IF str = <<>> THEN Err("empty") ELSE IF n.ok /\ n.val > 255 THEN Err("too large") ELSE n

RECURSIVE parse_tiles_scan(_, _, _)
\* riichi::hand::parse_tiles: runs of ranks, each closed by its suit letter
parse_tiles_scan(str, ranks, tiles) ==
    IF str = <<>> THEN (IF ranks = <<>> THEN Ok(tiles) ELSE Err("parse_tiles"))
    ELSE IF RankOf(Head(str)) # 0 THEN parse_tiles_scan(Tail(str), Append(ranks, RankOf(Head(str))), tiles)
    ELSE IF SuitOf(Head(str)) = 4 \/ ranks = <<>> THEN Err("parse_tiles")
    ELSE IF SuitOf(Head(str)) = 3 /\ \E i \in DOMAIN ranks : ranks[i] > 7 THEN Err("parse_tiles")
    ELSE parse_tiles_scan(Tail(str), <<>>,
            tiles \o [i \in DOMAIN ranks |-> 9 * SuitOf(Head(str)) + ranks[i] - 1])

parse_tiles(str) == parse_tiles_scan(str, <<>>, <<>>)

RECURSIVE parse_kawas(_, _)
\* lib.rs:63-87: the seats in order, the first error returns, an empty string is skipped
parse_kawas(strs, done) ==
    IF strs = <<>> \/ Len(done) = 4 THEN Ok(done)
    ELSE LET r == IF Head(strs) = <<>> THEN Ok(<<>>) ELSE parse_kawa(Head(strs))
         IN  IF ~r.ok THEN r ELSE parse_kawas(Tail(strs), Append(done, r.val))

RECURSIVE parse_fuuros(_, _)
\* lib.rs:89-125: the seats in order, the first error returns, an empty string is skipped
parse_fuuros(strs, done) ==
    IF strs = <<>> \/ Len(done) = 4 THEN Ok(done)
    ELSE LET r == IF Head(strs) = <<>> THEN Ok(<<>>) ELSE parse_fuuro(Head(strs))
         IN  IF ~r.ok THEN r ELSE parse_fuuros(Tail(strs), Append(done, r.val))

\* lib.rs:53-59: an empty score is 25000
parse_score(raw_score) ==
    IF raw_score = <<>> THEN Ok(25000)
    ELSE IF parse_number(raw_score, 0).ok THEN parse_number(raw_score, 0)
    ELSE Err("incorrect score")

RECURSIVE parse_scores(_, _)
parse_scores(strs, done) ==
    IF strs = <<>> \/ Len(done) = 4 THEN Ok(done)
    ELSE LET r == parse_score(Head(strs))
         IN  IF ~r.ok THEN r ELSE parse_scores(Tail(strs), Append(done, r.val))

Panicked == Err("panic: byte index 1 is not a char boundary")

\* the fields checked after scores: tehai, kawa, fuuro (lib.rs:60-126)
try_into_hands(rb, sofar) ==
    LET tehai == parse_tiles(rb.tehai)
        kawa == parse_kawas(rb.kawa, <<>>)
        fu == parse_fuuros(rb.fuuro, <<>>)
    IN  IF ~tehai.ok THEN Err("incorrect tehai")
        ELSE IF ~kawa.ok THEN kawa
        ELSE IF ~fu.ok THEN fu
        ELSE Ok([bakaze |-> sofar[1], kyoku |-> sofar[2], jikaze |-> sofar[3],
                 scores |-> sofar[4], tehai |-> tehai.val, kawa |-> kawa.val,
                 fuuro |-> fu.val])

\* the fields checked after kyoku: jikaze, kyotaku, honba, dora, scores (lib.rs:49-59)
try_into_table(rb, bakaze, kyoku) ==
    LET jikaze == tile_from_str(rb.jikaze)
        scores == parse_scores(rb.scores, <<>>)
    IN  IF ~jikaze.ok THEN Err("incorrect jikaze")
        ELSE IF ~parse_u8(rb.kyotaku).ok THEN Err("incorrect kyotaku")
        ELSE IF ~parse_u8(rb.honba).ok THEN Err("incorrect honba")
        ELSE IF ~parse_tiles(rb.dora).ok THEN Err("incorrect dora")
        ELSE IF ~scores.ok THEN scores
        ELSE try_into_hands(rb, <<bakaze, kyoku, jikaze.val, scores.val>>)

\* lib.rs:42-127
try_into(rb) ==
    IF StrLen(rb.kyoku) # 2 THEN Err("kyoku must be <bakaze><honba> (e.g. S3)")
    ELSE IF ~SliceOk(rb.kyoku) THEN Panicked
    ELSE LET bakaze == tile_from_str(<<rb.kyoku[1]>>)
             kyoku == parse_u8(<<rb.kyoku[2]>>)
         IN  IF ~bakaze.ok THEN Err("incorrect bakaze")
             ELSE IF ~kyoku.ok THEN Err("incorrect kyoku")
             ELSE try_into_table(rb, bakaze.val, kyoku.val)

\* longest kyoku string of the inputs, in characters
MaxKyokuChars == 3

KyokuChars == {"E", "1", "U+00E9"}
KyokuStrings == UNION {[1..n -> KyokuChars] : n \in 0..MaxKyokuChars}

\* a well-formed and a malformed value of each field; kawa and fuuro also with
\* a tile token the tile primitive rejects
RawBoards ==
    [kyoku : KyokuStrings,
     jikaze : {<<"S">>, <<"x">>},
     kyotaku : {<<"0">>, <<>>},
     honba : {<<"1">>, <<"x">>},
     dora : {<<"1", "m">>, <<"1">>},
     scores : {<< <<>>, <<"2", "5", "0", "0", "0">> >>, << <<"x">> >>},
     tehai : {<<"1", "5", "m">>, <<"m">>},
     kawa : {<< <<"1", "m", ".">>, <<>> >>, << <<"1", "x">> >>, << <<"1">> >>},
     fuuro : {<< <<"(", "1", "m", ")">> >>, << <<"1", "x">> >>, << <<")">> >>}]

\* lib.rs:141-143: the board is decoded; a panic aborts the call
TryInto ==
    /\ pc = "try_into"
    /\ LET r == try_into(raw)
       IN  IF r = Panicked
           THEN pc' = "panicked" /\ decoded' = NoBoard
           ELSE pc' = "returned" /\ decoded' = r
    /\ UNCHANGED <<events, fed, state, visible_kawa, fuuro, board, raw>>

InitBoard ==
    /\ events = <<>>
    /\ fed = 0
    /\ pc = "try_into"
    /\ state = PlayerStateNew(0)
    /\ visible_kawa = [i \in Seats |-> <<>>]
    /\ fuuro = [i \in Seats |-> <<>>]
    /\ board = NoBoard
    /\ raw \in RawBoards
    /\ decoded = NoBoard

NextBoard == TryInto

SpecBoard == InitBoard /\ [][NextBoard]_vars

(***************************************************************************)
(* generate_board_from_tenhou_js: the viewing seat, lib.rs:192-199          *)
(***************************************************************************)
\* tu8!(E), the tile id of East
TileE == 27

\* lib.rs:197 where no subtraction underflows: (4 + oya + tile - E) % 4
player_id_of(oya, tile) == (4 + oya + tile - TileE) % 4

\* lib.rs:197 in u8 with wrapping arithmetic (overflow checks off)
player_id_wrapping(oya, tile) == ((4 + oya + tile - TileE) % 256) % 4

\* 4 + oya + tile - E goes below zero in u8
Underflows(oya, tile) == 4 + oya + tile < TileE

\* largest kyoku_num of the first round's metadata in the inputs
MaxKyokuNum == 15

\* seat-wind strings: the winds, other honors, numbered tiles, no tile
JikazeStrings ==
    {<<"E">>, <<"S">>, <<"W">>, <<"N">>, <<"P">>, <<"C">>,
     <<"1", "m">>, <<"5", "s">>, <<"9", "s">>, <<"x">>}

\* lib.rs:193: the seat-wind string is no tile
InvalidJikaze ==
    /\ pc = "seat"
    /\ ~tile_from_str(raw.jikaze).ok
    /\ pc' = "error"
    /\ UNCHANGED <<events, fed, state, visible_kawa, fuuro, board, raw, decoded>>

\* lib.rs:195-199: the viewing seat is computed and the engine state created;
\* an underflow of the u8 subtraction panics when overflow checks are on and
\* wraps when they are off
PlayerId ==
    /\ pc = "seat"
    /\ tile_from_str(raw.jikaze).ok
    /\ LET oya == raw.kyoku_num % 4
           tile == tile_from_str(raw.jikaze).val
       IN  IF Underflows(oya, tile)
           THEN \/ pc' = "panicked" /\ UNCHANGED <<state, decoded>>
                \/ /\ pc' = "seated"
                   /\ decoded' = Ok(player_id_wrapping(oya, tile))
                   /\ state' = PlayerStateNew(player_id_wrapping(oya, tile))
           ELSE /\ pc' = "seated"
                /\ decoded' = Ok(player_id_of(oya, tile))
                /\ state' = PlayerStateNew(player_id_of(oya, tile))
    /\ UNCHANGED <<events, fed, visible_kawa, fuuro, board, raw>>

InitSeat ==
    /\ events = <<>>
    /\ fed = 0
    /\ pc = "seat"
    /\ state = PlayerStateNew(0)
    /\ visible_kawa = [i \in Seats |-> <<>>]
    /\ fuuro = [i \in Seats |-> <<>>]
    /\ board = NoBoard
    /\ raw \in [kyoku_num : 0..MaxKyokuNum, jikaze : JikazeStrings]
    /\ decoded = NoBoard

NextSeat == PlayerId \/ InvalidJikaze

SpecSeat == InitSeat /\ [][NextSeat]_vars

(***************************************************************************)
(* Properties of the replay                                                 *)
(***************************************************************************)
\* the step hands an event of one of the types to the engine and goes on
Fed(types) ==
    /\ pc = "loop" /\ pc' = "loop" /\ fed' = fed + 1
    /\ events'[fed'].type \in types

\* relative index of a seat, written out
RelIndex(seat) == (seat + 4 - state.player_id) % 4

\* what a call of e.pai by e.actor from e.target does to the projections
CallMovesDiscardIntoMeld(e) ==
    LET A == RelIndex(e.actor)
        B == RelIndex(e.target)
        i == ((4 + e.actor - e.target) % 4) - 1
    IN  /\ Len(visible_kawa'[B]) = Len(visible_kawa[B]) - 1
        /\ Len(fuuro'[A]) = Len(fuuro[A]) + 1
        /\ SubSeq(fuuro'[A], 1, Len(fuuro[A])) = fuuro[A]
        /\ LET naki == fuuro'[A][Len(fuuro'[A])]
           IN  /\ naki[i + 1] = <<e.pai, TRUE>>
               /\ \A j \in DOMAIN naki : naki[j][2] <=> j = i + 1

\* C1: on every call of a discarded tile (chi, pon, daiminkan) by seat A from
\* seat B, B's visible discards lose exactly one entry, A's meld list gains
\* exactly one group, and in the new group the called tile is the sideways one,
\* at index ((4 + A - B) mod 4) - 1.
C1_CallMovesDiscardIntoMeld ==
    [][Fed({"Chi", "Pon", "Daiminkan"}) => CallMovesDiscardIntoMeld(events'[fed'])]_vars

\* the same for chi and pon alone, which is what the replay does
ChiPonMovesDiscardIntoMeld ==
    [][Fed({"Chi", "Pon"}) => CallMovesDiscardIntoMeld(events'[fed'])]_vars

\* the events the loop applies: those before the first EndKyoku
FirstEnd(evs) ==
    IF \E j \in DOMAIN evs : evs[j].type = "EndKyoku"
    THEN CHOOSE j \in DOMAIN evs :
            evs[j].type = "EndKyoku" /\ \A k \in 1..(j - 1) : evs[k].type # "EndKyoku"
    ELSE Len(evs) + 1

Applied(evs) == SubSeq(evs, 1, FirstEnd(evs) - 1)

ReachedBy(evs, seat) ==
    \E j \in DOMAIN evs : evs[j].type = "Reach" /\ evs[j].actor = seat

\* the visible discards of a seat after the events evs: its discards in order,
\* less each one that was called, with the riichi flag as the replay sets it
RECURSIVE SeatKawa(_, _)
SeatKawa(evs, seat) ==
    IF evs = <<>> THEN <<>>
    ELSE LET e == evs[Len(evs)]
             before == SeatKawa(Front(evs), seat)
         IN  IF e.type = "Dahai" /\ e.actor = seat
             THEN Append(before, <<e.pai, e.tsumogiri, ReachedBy(Front(evs), seat)>>)
             ELSE IF e.type \in {"Chi", "Pon", "Daiminkan"} /\ e.target = seat
             THEN SubSeq(before, 1, Len(before) - 1)
             ELSE before

\* the called tile sideways among the tiles from the hand, by the seat distance
CalledGroup(e) ==
    LET d == (4 + e.actor - e.target) % 4
        hand == [i \in 1..Len(e.consumed) |-> <<e.consumed[i], FALSE>>]
    IN  SubSeq(hand, 1, d - 1) \o <<<<e.pai, TRUE>>>> \o SubSeq(hand, d, Len(hand))

\* the added tile after the first sideways tile of its kind
RECURSIVE AddedQuad(_, _)
AddedQuad(groups, pai) ==
    IF groups = <<>> THEN <<>>
    ELSE LET g == Head(groups)
             hit == {i \in DOMAIN g : g[i][2] /\ deaka(g[i][1]) = deaka(pai)}
         IN  IF hit = {} THEN <<g>> \o AddedQuad(Tail(groups), pai)
             ELSE LET i == CHOOSE x \in hit : \A y \in hit : x <= y
                  IN  <<SubSeq(g, 1, i) \o <<<<pai, TRUE>>>> \o SubSeq(g, i + 1, Len(g))>>
                        \o Tail(groups)

\* the meld groups of a seat after the events evs, as the replay builds them
\* (a daiminkan adds none)
RECURSIVE SeatFuuro(_, _)
SeatFuuro(evs, seat) ==
    IF evs = <<>> THEN <<>>
    ELSE LET e == evs[Len(evs)]
             before == SeatFuuro(Front(evs), seat)
         IN  IF e.actor # seat THEN before
             ELSE IF e.type \in {"Chi", "Pon"} THEN Append(before, CalledGroup(e))
             ELSE IF e.type = "Ankan"
                  THEN Append(before, [i \in 1..4 |-> <<e.consumed[i], FALSE>>])
             ELSE IF e.type = "Kakan" THEN AddedQuad(before, e.pai)
             ELSE before

KawaText(recs) == Concat([j \in 1..Len(recs) |-> sutehai_string(recs[j])])

FuuroText(groups) ==
    LET flat == Concat(Rev(groups))
    IN  Concat([j \in 1..Len(flat) |-> fuurohai_string(flat[j])])

\* C6: an added quad (kakan) on a pon of the seat puts the added tile, sideways,
\* right after the first sideways tile of the same de-reddened value in the
\* seat's meld groups; the seat keeps its number of groups, that one group goes
\* from 3 to 4 tiles, and no other group, seat or discard sequence changes.
C6_KakanUpgradesPon ==
    [][Fed({"Kakan"}) =>
        LET e == events'[fed']
            A == RelIndex(e.actor)
            old == fuuro[A]
            new == fuuro'[A]
        IN  /\ visible_kawa' = visible_kawa
            /\ \A i \in Seats : i # A => fuuro'[i] = fuuro[i]
            /\ Len(new) = Len(old)
            /\ \E g \in DOMAIN old : \E i \in 1..3 :
                /\ Len(old[g]) = 3
                /\ old[g][i][2] /\ deaka(old[g][i][1]) = deaka(e.pai)
                /\ \A h \in 1..g : \A j \in DOMAIN old[h] :
                        (h < g \/ j < i) =>
                            ~(old[h][j][2] /\ deaka(old[h][j][1]) = deaka(e.pai))
                /\ new[g] = SubSeq(old[g], 1, i) \o <<<<e.pai, TRUE>>>> \o SubSeq(old[g], i + 1, 3)
                /\ \A h \in DOMAIN old : h # g => new[h] = old[h]
    ]_vars

\* a pon of 5m called from the seat across, upgraded with the red 5m
C6_Witness ==
    /\ pc = "loop" /\ fed = 3
    /\ events[3].type = "Kakan" /\ events[3].pai = 34
    /\ \E A \in Seats :
        fuuro[A] = << << <<4, FALSE>>, <<4, TRUE>>, <<34, TRUE>>, <<4, FALSE>> >> >>

\* C7: when the engine rejects event k the replay ends in an error with no
\* board; the projections are those of the events before k, event k is the
\* last one handed to the engine, and nothing changes afterwards.
C7_RejectedEventAborts ==
    /\ [](pc = "error" =>
            /\ board = NoBoard
            /\ fed \in DOMAIN events
            /\ ~update_ok(state, events[fed])
            /\ \A seat \in Seats :
                /\ visible_kawa[RelIndex(seat)] = SeatKawa(SubSeq(events, 1, fed - 1), seat)
                /\ fuuro[RelIndex(seat)] = SeatFuuro(SubSeq(events, 1, fed - 1), seat))
    /\ [][pc' = "error" => (visible_kawa' = visible_kawa /\ fuuro' = fuuro)]_vars
    /\ [][pc = "error" => UNCHANGED <<fed, state, visible_kawa, fuuro, board>>]_vars

\* a call by the discarding seat itself is rejected, with events left unread
C7_Witness ==
    /\ pc = "error"
    /\ fed = 2 /\ Len(events) > fed
    /\ events[2].type = "Pon" /\ events[2].actor = events[2].target
    /\ \E i \in Seats : visible_kawa[i] # <<>>

\* C8: the events are applied in log order up to the first EndKyoku or the end
\* of the log: at every step the projections are those of the events before
\* that point, the board is rendered from them, and no event after the first
\* EndKyoku reaches the engine or the projections.
C8_StopsAtFirstEndKyoku ==
    /\ [](pc \in {"loop", "done"} =>
            /\ fed = (IF pc = "done" /\ FirstEnd(events) <= Len(events)
                      THEN FirstEnd(events) ELSE Len(events))
            /\ \A seat \in Seats :
                /\ visible_kawa[RelIndex(seat)] = SeatKawa(Applied(events), seat)
                /\ fuuro[RelIndex(seat)] = SeatFuuro(Applied(events), seat)
            /\ pc = "done" => board = RawBoardOf(visible_kawa, fuuro))
    /\ [][pc = "done" => UNCHANGED <<fed, state, visible_kawa, fuuro, board>>]_vars

\* the round ended after a discard, and the log goes on with a discard and a quad
C8_Witness ==
    /\ pc = "done"
    /\ fed = 2 /\ Len(events) = 4
    /\ events[1].type = "Dahai" /\ events[2].type = "EndKyoku"
    /\ events[3].type = "Dahai" /\ events[4].type = "Ankan"

\* C9 as stated: the board's kawa and fuuro have four entries each, and entry
\* i holds the discards and melds of absolute seat i.
C9_AbsoluteSeatOrder ==
    pc = "done" =>
        /\ Len(board.kawa) = 4 /\ Len(board.fuuro) = 4
        /\ \A seat \in Seats :
            /\ board.kawa[seat + 1] = KawaText(SeatKawa(Applied(events), seat))
            /\ board.fuuro[seat + 1] = FuuroText(SeatFuuro(Applied(events), seat))

\* C9 amended: the board's kawa and fuuro have four entries each, and entry i
\* holds the discards and melds of the seat i places after the viewing seat,
\* that is of absolute seat (viewing seat + i) mod 4.
C9_RelativeSeatOrder ==
    pc = "done" =>
        /\ Len(board.kawa) = 4 /\ Len(board.fuuro) = 4
        /\ \A i \in Seats :
            LET seat == (state.player_id + i) % 4
            IN  /\ board.kawa[i + 1] = KawaText(SeatKawa(Applied(events), seat))
                /\ board.fuuro[i + 1] = FuuroText(SeatFuuro(Applied(events), seat))

\* viewing seat 2: seat 1 discarded, seat 0 called pon; entry 2 holds seat 0's meld
C9_Witness ==
    /\ pc = "done"
    /\ state.player_id = 2
    /\ Len(events) >= 3
    /\ events[1].type = "Dahai" /\ events[1].actor = 1
    /\ events[2].type = "Dahai" /\ events[2].actor = 1
    /\ events[3].type = "Pon" /\ events[3].actor = 0
    /\ board.kawa[4] # <<>> /\ board.fuuro[3] # <<>>

\* the visible discards of a seat with the riichi flag on the declaring discard alone
RECURSIVE SeatKawaDeclaring(_, _)
SeatKawaDeclaring(evs, seat) ==
    IF evs = <<>> THEN <<>>
    ELSE LET e == evs[Len(evs)]
             before == SeatKawaDeclaring(Front(evs), seat)
             declares == /\ Len(evs) > 1
                         /\ evs[Len(evs) - 1].type = "Reach"
                         /\ evs[Len(evs) - 1].actor = seat
         IN  IF e.type = "Dahai" /\ e.actor = seat
             THEN Append(before, <<e.pai, e.tsumogiri, declares>>)
             ELSE IF e.type \in {"Chi", "Pon", "Daiminkan"} /\ e.target = seat
             THEN SubSeq(before, 1, Len(before) - 1)
             ELSE before

\* C10: in every seat's visible discards the riichi flag is set exactly on the
\* discard that declared riichi, so on at most one record of the seat.
C10_RiichiOnDeclaringDiscardOnly ==
    pc \in {"loop", "done"} =>
        \A seat \in Seats :
            /\ visible_kawa[RelIndex(seat)] = SeatKawaDeclaring(Applied(events), seat)
            /\ Cardinality({j \in DOMAIN visible_kawa[RelIndex(seat)] :
                                visible_kawa[RelIndex(seat)][j][3]}) <= 1

\* one meld group as text: its tiles left to right, a sideways tile in parentheses
GroupText(group) ==
    Concat([j \in 1..Len(group) |->
        IF group[j][2] THEN <<"(">> \o TileStrings[group[j][1]] \o <<")">>
        ELSE TileStrings[group[j][1]]])

\* the groups as text, the one formed last first, nothing between them
RECURSIVE MeldsText(_)
MeldsText(groups) ==
    IF groups = <<>> THEN <<>>
    ELSE GroupText(groups[Len(groups)]) \o MeldsText(Front(groups))

\* C12: the board's meld string of a seat is its meld groups in reverse
\* chronological order (the group formed last first), each group's tiles in
\* their left-to-right order, a sideways tile written "(<tile>)" and any other
\* "<tile>", with no delimiter between groups.
C12_MeldsNewestFirst ==
    pc = "done" =>
        \A i \in Seats : board.fuuro[i + 1] = MeldsText(fuuro[i])

\* a seat called pon and then declared a concealed quad: the quad is written first
C12_Witness ==
    /\ pc = "done"
    /\ \E i \in Seats :
        /\ Len(fuuro[i]) = 2
        /\ Len(fuuro[i][1]) = 3 /\ Len(fuuro[i][2]) = 4
        /\ board.fuuro[i + 1] = GroupText(fuuro[i][2]) \o GroupText(fuuro[i][1])
        /\ board.fuuro[i + 1] # GroupText(fuuro[i][1]) \o GroupText(fuuro[i][2])

\* the events the loop has matched on: those handed to the engine, less a rejected one
Replayed == SubSeq(events, 1, IF pc = "error" THEN fed - 1 ELSE fed)

\* number of discards of the seat among evs less the calls that took one of them
RECURSIVE Uncalled(_, _)
Uncalled(evs, seat) ==
    IF evs = <<>> THEN 0
    ELSE LET e == Head(evs)
         IN  Uncalled(Tail(evs), seat)
               + (IF e.type = "Dahai" /\ e.actor = seat THEN 1 ELSE 0)
               - (IF e.type \in {"Chi", "Pon", "Daiminkan"} /\ e.target = seat THEN 1 ELSE 0)

KawaLengthsOk ==
    LET evs == Replayed
    IN  \A seat \in Seats : Len(visible_kawa[RelIndex(seat)]) = Uncalled(evs, seat)

\* the call takes the record of the discard right before it off the end
CallTakesCalledTile ==
    LET e == events'[fed']
        d == events[fed]
        B == RelIndex(e.target)
    IN  /\ fed >= 1
        /\ d.type = "Dahai" /\ d.actor = e.target /\ d.pai = e.pai
        /\ visible_kawa[B] # <<>>
        /\ visible_kawa[B][Len(visible_kawa[B])][1] = e.pai
        /\ visible_kawa[B][Len(visible_kawa[B])][2] = d.tsumogiri
        /\ visible_kawa'[B] = Front(visible_kawa[B])
        /\ \A i \in Seats : i # B => visible_kawa'[i] = visible_kawa[i]

\* C15: in a log where every call comes right after the target seat's discard
\* of the called tile, the entry a chi, pon or daiminkan removes from the
\* target's visible discards is the record of the called tile, the target's
\* sequence is never empty at that point, and at every step each seat's visible
\* discards number its discards less the calls that targeted it.
C15_CallRemovesCalledDiscard ==
    /\ []KawaLengthsOk
    /\ [][Fed({"Chi", "Pon", "Daiminkan"}) => CallTakesCalledTile]_vars

\* a seat discarded 5m, then the red 5m, and the red 5m was called: the 5m stays
C15_Witness ==
    /\ pc = "loop" /\ fed = 3
    /\ events[1].type = "Dahai" /\ events[1].pai = 4
    /\ events[2].type = "Dahai" /\ events[2].pai = 34
    /\ events[2].actor = events[1].actor
    /\ events[3].type \in {"Chi", "Pon", "Daiminkan"} /\ events[3].target = events[1].actor
    /\ visible_kawa[RelIndex(events[1].actor)] = <<<<4, events[1].tsumogiri, FALSE>>>>

SidewaysAt(group) == {j \in DOMAIN group : group[j][2]}

\* chi or pon, pon upgraded by an added quad, concealed quad
GroupShapeOk(group) ==
    \/ Len(group) = 3 /\ Cardinality(SidewaysAt(group)) = 1
    \/ /\ Len(group) = 4
       /\ \E j \in 1..3 : SidewaysAt(group) = {j, j + 1}
    \/ Len(group) = 4 /\ SidewaysAt(group) = {}

\* the group a chi or pon adds: the called tile at the seat distance less one
CallIndexOk ==
    LET e == events'[fed']
        A == RelIndex(e.actor)
        d == (4 + e.actor - e.target) % 4
        naki == fuuro'[A][Len(fuuro'[A])]
    IN  /\ e.actor # e.target
        /\ d - 1 \in 0..Len(e.consumed)
        /\ Len(fuuro'[A]) = Len(fuuro[A]) + 1
        /\ Len(naki) = 3
        /\ SidewaysAt(naki) = {d}

TilePieces == {<<"1", "m">>, <<"5", "m">>}
Markers == {<<>>, <<".">>, <<"-">>}

\* one discard: a tile token and no marker, "." or "-"
KawaTokens == {t \o m : t \in TilePieces, m \in Markers}

\* the kawa strings of the grammar: tokens one after the other
KawaGrammar == {Concat(ts) : ts \in UNION {[1..n -> KawaTokens] : n \in 0..MaxPieces}}

\* tile tokens one after the other
TileGrammar == {Concat(ts) : ts \in UNION {[1..n -> TilePieces] : n \in 0..MaxPieces}}

\* C2: a valid one-discard string, decoded by the kawa parser and encoded by
\* the replay's discard renderer (tsumogiri = not tedashi), is the string again.
C2_DiscardRoundTrip ==
    (pc = "encoded" /\ raw.text \in KawaTokens) => board.kawa[1] = raw.text

\* the discard string of the grammar: "" tedashi, "." tsumogiri, "-" tsumogiri and riichi
GrammarSutehai(pai, tsumogiri, riichi) ==
    TileStrings[pai] \o (IF ~tsumogiri THEN <<>> ELSE IF riichi THEN <<"-">> ELSE <<".">>)

\* C3: the replay renders every discard record as the tile followed by ""
\* when tedashi, "." when tsumogiri without riichi, "-" when tsumogiri with riichi.
C3_DiscardMarker ==
    pc = "done" =>
        \A i \in Seats :
            board.kawa[i + 1] =
                Concat([j \in 1..Len(visible_kawa[i]) |->
                    GrammarSutehai(visible_kawa[i][j][1], visible_kawa[i][j][2],
                                   visible_kawa[i][j][3])])

IsParen(c) == c \in {"(", ")"}

\* a ")" with no "(" open, or a "(" with one open, reading the characters in order
RECURSIVE ParenBad(_, _)
ParenBad(text, open) ==
    IF text = <<>> THEN FALSE
    ELSE IF text[1] = "(" THEN open \/ ParenBad(Tail(text), TRUE)
    ELSE IF text[1] = ")" THEN ~open \/ ParenBad(Tail(text), FALSE)
    ELSE ParenBad(Tail(text), open)

\* the parenthesis is open after the first k characters
OpenAfter(text, k) ==
    Cardinality({i \in 1..k : text[i] = "("}) > Cardinality({i \in 1..k : text[i] = ")"})

\* index of the n-th character that is no parenthesis
NthTileChar(text, n) ==
    CHOOSE k \in 1..Len(text) :
        ~IsParen(text[k]) /\ Cardinality({i \in 1..k : ~IsParen(text[i])}) = n

\* tile tokens, every parenthesis between two tokens, none nested or unmatched
WellFormedFuuro(text) ==
    /\ ~ParenBad(text, FALSE)
    /\ ~OpenAfter(text, Len(text))
    /\ SelectSeq(text, LAMBDA c : ~IsParen(c)) \in TileGrammar
    /\ \A k \in 1..Len(text) :
        IsParen(text[k]) => Cardinality({i \in 1..k : ~IsParen(text[i])}) % 2 = 0

\* C5: a fuuro string with a ")" while none is open or a "(" while one is open
\* never decodes; a well-formed string decodes, and the tiles are its tokens in
\* order, sideways exactly when the token is between "(" and ")".
C5_FuuroDecode ==
    (pc # "decode" /\ raw.field = "fuuro") =>
        /\ ParenBad(raw.text, FALSE) => ~decoded.ok
        /\ WellFormedFuuro(raw.text) => decoded.ok
        /\ decoded.ok =>
            /\ SelectSeq(raw.text, LAMBDA c : ~IsParen(c)) =
                    Concat([j \in DOMAIN decoded.val |-> TileStrings[decoded.val[j].tile]])
            /\ \A j \in DOMAIN decoded.val :
                    decoded.val[j].sideways <=>
                        OpenAfter(raw.text, NthTileChar(raw.text, 2 * j - 1))

\* "(1m)5m1m" is decoded into three tiles, the first alone sideways
C5_Witness ==
    /\ pc = "decoded"
    /\ raw = [field |-> "fuuro", text |-> <<"(", "1", "m", ")", "5", "m", "1", "m">>]
    /\ decoded = Ok(<< [tile |-> 0, sideways |-> TRUE],
                       [tile |-> 4, sideways |-> FALSE],
                       [tile |-> 0, sideways |-> FALSE] >>)

\* C14: a fuuro string that is well formed up to a "(" that is never closed,
\* with only tile tokens after it, decodes: the tiles before the "(" are as in
\* the string without its tail, every tile after it is sideways, and the end
\* of the string raises no error.
C14_UnclosedParenAccepted ==
    (pc # "decode" /\ raw.field = "fuuro") =>
        \A k \in DOMAIN raw.text :
            LET before == SubSeq(raw.text, 1, k - 1)
                after == SubSeq(raw.text, k + 1, Len(raw.text))
            IN  (/\ raw.text[k] = "("
                 /\ WellFormedFuuro(before)
                 /\ after \in TileGrammar)
                => /\ decoded.ok
                   /\ Len(decoded.val) = (Len(raw.text) - 1 - Cardinality(
                            {i \in 1..(k - 1) : IsParen(raw.text[i])})) \div 2
                   /\ \A j \in DOMAIN decoded.val :
                        LET n == Len(decoded.val) - Len(after) \div 2
                        IN  j > n =>
                            /\ decoded.val[j].sideways
                            /\ TileStrings[decoded.val[j].tile] =
                                    SubSeq(after, 2 * (j - n) - 1, 2 * (j - n))
                   /\ SubSeq(decoded.val, 1, Len(decoded.val) - Len(after) \div 2)
                        = parse_fuuro(before).val

\* "1m(5m1m" is decoded into three tiles, the last two sideways
C14_Witness ==
    /\ pc = "decoded"
    /\ raw = [field |-> "fuuro", text |-> <<"1", "m", "(", "5", "m", "1", "m">>]
    /\ decoded = Ok(<< [tile |-> 0, sideways |-> FALSE],
                       [tile |-> 4, sideways |-> TRUE],
                       [tile |-> 0, sideways |-> TRUE] >>)

(***************************************************************************)
(* Properties of RawBoard::try_into                                         *)
(***************************************************************************)
\* C11: decode is total on the kyoku field: for every kyoku string it returns,
\* with an error or, only for a wind letter followed by a digit, going on to
\* the other fields; it never panics, and a string that is not two characters
\* long always gives an error.
C11_KyokuDecodeTotal ==
    pc # "try_into" =>
        /\ pc = "returned"
        /\ Len(raw.kyoku) # 2 => ~decoded.ok
        /\ decoded.err \notin {"kyoku must be <bakaze><honba> (e.g. S3)",
                               "incorrect bakaze", "incorrect kyoku"}
            => /\ Len(raw.kyoku) = 2
               /\ tile_from_str(<<raw.kyoku[1]>>).ok
               /\ DigitOf(raw.kyoku[2]) < 10

\* the kyoku field decodes whenever decode returns: nothing is said of a panic
KyokuDecodeWhenReturned ==
    pc = "returned" =>
        /\ Len(raw.kyoku) # 2 => ~decoded.ok
        /\ decoded.err \notin {"kyoku must be <bakaze><honba> (e.g. S3)",
                               "incorrect bakaze", "incorrect kyoku"}
            => /\ Len(raw.kyoku) = 2
               /\ raw.kyoku[1] \in {"E", "S", "W", "N", "P", "F", "C"}
               /\ DigitOf(raw.kyoku[2]) < 10

FieldOrder ==
    <<"kyoku", "jikaze", "kyotaku", "honba", "dora", "scores", "tehai", "kawa", "fuuro">>

\* the field is malformed
Malformed(rb, f) ==
    CASE f = "kyoku" ->
            ~(/\ Len(rb.kyoku) = 2
              /\ tile_from_str(<<rb.kyoku[1]>>).ok
              /\ DigitOf(rb.kyoku[2]) < 10)
      [] f = "jikaze" -> ~tile_from_str(rb.jikaze).ok
      [] f = "kyotaku" -> ~parse_u8(rb.kyotaku).ok
      [] f = "honba" -> ~parse_u8(rb.honba).ok
      [] f = "dora" -> ~parse_tiles(rb.dora).ok
      [] f = "scores" ->
            \E i \in DOMAIN rb.scores :
                rb.scores[i] # <<>> /\ \E j \in DOMAIN rb.scores[i] : DigitOf(rb.scores[i][j]) = 10
      [] f = "tehai" -> ~parse_tiles(rb.tehai).ok
      [] f = "kawa" -> \E i \in DOMAIN rb.kawa : ~parse_kawa(rb.kawa[i]).ok
      [] f = "fuuro" -> \E i \in DOMAIN rb.fuuro : ~parse_fuuro(rb.fuuro[i]).ok

\* index in FieldOrder of the first malformed field, 0 when there is none
FirstMalformed(rb) ==
    LET bad == {i \in DOMAIN FieldOrder : Malformed(rb, FieldOrder[i])}
    IN  IF bad = {} THEN 0 ELSE CHOOSE i \in bad : \A j \in bad : i <= j

\* the field an error message names, "" when it names none
ErrField(msg) ==
    CASE msg \in {"kyoku must be <bakaze><honba> (e.g. S3)", "incorrect bakaze",
                  "incorrect kyoku"} -> "kyoku"
      [] msg = "incorrect jikaze" -> "jikaze"
      [] msg = "incorrect kyotaku" -> "kyotaku"
      [] msg = "incorrect honba" -> "honba"
      [] msg = "incorrect dora" -> "dora"
      [] msg = "incorrect score" -> "scores"
      [] msg = "incorrect tehai" -> "tehai"
      [] msg = "incorrect kawa" -> "kawa"
      [] msg \in {"nested opening parenthesis in fuuro", "extra closing parenthesis in fuuro",
                  "incorrect fuuro"} -> "fuuro"
      [] OTHER -> ""

\* C13: decode checks kyoku, jikaze, kyotaku, honba, dora, scores, tehai, kawa,
\* fuuro in this order and fails on the first malformed field with no board;
\* the error names that field, also when the failure is a tile token of a kawa
\* or fuuro string that the tile primitive rejects.
C13_ErrorNamesFirstMalformedField ==
    pc = "returned" =>
        IF FirstMalformed(raw) = 0 THEN decoded.ok
        ELSE /\ ~decoded.ok
             /\ ErrField(decoded.err) = FieldOrder[FirstMalformed(raw)]

\* the order holds; the error names the field unless it is the tile primitive's own
FailsOnFirstMalformedField ==
    pc = "returned" =>
        IF FirstMalformed(raw) = 0 THEN decoded.ok
        ELSE /\ ~decoded.ok
             /\ \/ ErrField(decoded.err) = FieldOrder[FirstMalformed(raw)]
                \/ /\ decoded.err = "parse_tile"
                   /\ FieldOrder[FirstMalformed(raw)] \in {"kawa", "fuuro"}

(***************************************************************************)
(* Properties of the viewing seat                                           *)
(***************************************************************************)
\* the seat is one of the four and has the requested wind when kyoku_num % 4 deals
SeatHasWind ==
    LET oya == raw.kyoku_num % 4
        tile == tile_from_str(raw.jikaze).val
    IN  /\ ~Underflows(oya, tile)
        /\ state.player_id \in Seats
        /\ decoded = Ok(state.player_id)
        /\ (state.player_id + 4 - oya) % 4 = tile - TileE

\* C17: for every seat-wind string that parses as a tile and every first-round
\* number k, (4 + (k mod 4) + tile - E) mod 4 in unsigned 8-bit arithmetic
\* does not underflow or wrap, gives a seat in 0..3, and that seat has the
\* requested wind when seat k mod 4 deals; a tile that is not a wind gives no
\* viewing seat.
C17_ViewingSeatOfWind ==
    (pc # "seat" /\ tile_from_str(raw.jikaze).ok) =>
        /\ pc # "panicked"
        /\ pc = "seated" =>
            /\ tile_from_str(raw.jikaze).val \in TileE..(TileE + 3)
            /\ SeatHasWind

\* for the four winds the seat is computed without underflow and has the wind
WindGivesSeat ==
    (pc # "seat" /\ raw.jikaze \in {<<"E">>, <<"S">>, <<"W">>, <<"N">>}) =>
        pc = "seated" /\ SeatHasWind

====
